---- MODULE Spec2Model ----
(***************************************************************************)
(* Model of the Odoo documentation RAG core:                               *)
(*   - VectorDatabase (src/vector_database.py): load_embeddings,           *)
(*     build_index, search over a FAISS IndexFlatIP;                       *)
(*   - OdooRAGSystem (src/rag_system.py): ask / _ask_with_image,           *)
(*     retrieve_relevant_docs, generate_answer, _generate_fallback_answer; *)
(*   - GeminiEmbeddingSystem.generate_embedding (src/embedding_system.py). *)
(*                                                                         *)
(* Numbers.  float32 values are modelled in fixed point: the integer One   *)
(* stands for 1.0.  The vectors of the model are chosen so that every norm *)
(* and every inner product is exact in this representation.                *)
(*                                                                         *)
(* Text.  A text is a sequence of words; a substring test is a contiguous  *)
(* sub-sequence test and lower-casing works word by word.                  *)
(***************************************************************************)
EXTENDS Integers, Sequences, FiniteSets, TLC

VARIABLES
    documents,        \* VectorDatabase.documents
    embeddings,       \* VectorDatabase.embeddings (normalised in place by build_index)
    dimension,        \* VectorDatabase.dimension
    index,            \* VectorDatabase.index: NoIndex (None) or the FAISS index <<[d, xb]>>
    pc,               \* position of the call in progress; "done" when it has returned
                      \* or raised, "idle" between calls
    call,             \* the arguments of the call in progress (or of the last call)
    retrieved_docs,   \* local of ask / _ask_with_image
    log,              \* the capability calls made by this call, in order
    ret,              \* what the last call returned or raised
    frames,           \* the calls in progress when several run at once: for each
                      \* thread its position, arguments, locals, capability calls
                      \* and result
    entry_doc,        \* a retrieved chunk record about to be listed as a source
    entry_out,        \* the source entry made from entry_doc
    entry_pc,         \* "doc" before the entry is made, "entry" after
    text,             \* chunk_text: its argument text
    chunk_size,       \* chunk_text: its argument chunk_size
    overlap,          \* chunk_text: its argument overlap
    start,            \* chunk_text: its local start
    chunks,           \* chunk_text: its local chunks
    chunk_pc,         \* chunk_text: "idle", "loop" (at the while test) or "done"
    site,             \* the documentation site the crawler reads: the links of
                      \* each page and the pages whose fetch fails
    queue,            \* OdooCrawler.crawl: its local queue
    visited_urls,     \* OdooCrawler.visited_urls
    html_links,       \* OdooCrawler.html_links
    dequeued,         \* the urls crawl has taken off its queue, in order
    fetched,          \* the calls of session.get made by crawl_page, in order:
                      \* the url and whether the response came
    csv_rows,         \* the rows of the csv file save_to_csv writes
    processed_docs,   \* OdooDocProcessor.processed_docs
    crawl_pc          \* "idle", "crawl" (at the while test), "crawled", "saved"
                      \* or "processed"

\* the variables of the call that runs alone
seqvars == <<pc, call, retrieved_docs, log, ret>>

entryvars == <<entry_doc, entry_out, entry_pc>>

chunkvars == <<text, chunk_size, overlap, start, chunks, chunk_pc>>

crawlvars == <<site, queue, visited_urls, html_links, dequeued, fetched, csv_rows,
               processed_docs, crawl_pc>>

\* the variables of the offline tools and of the formatting of one source
toolvars == <<entryvars, chunkvars, crawlvars>>

vars == <<documents, embeddings, dimension, index, pc, call, retrieved_docs, log, ret, frames,
          toolvars>>

dbvars == <<documents, embeddings, dimension, index>>

\* ------------------------------------------------------------------ bounds
MaxDocs == 2
MaxTopK == 3

\* ------------------------------------------------------------- arithmetic
\* 1.0 in the fixed-point representation of float32
One == 25

\* numeric_limits<float>::lowest(), the similarity FAISS gives a padding slot
Lowest == 0 - (One * One * One)

RECURSIVE SumSeq(_)
SumSeq(s) == IF s = <<>> THEN 0 ELSE Head(s) + SumSeq(Tail(s))

Abs(x) == IF x < 0 THEN 0 - x ELSE x

Min(a, b) == IF a < b THEN a ELSE b

SumSq(v) == SumSeq([i \in 1..Len(v) |-> v[i] * v[i]])

\* sqrt(||v||^2): the integer square root, exact on the vectors of the model
Norm(v) == LET bound == SumSeq([i \in 1..Len(v) |-> Abs(v[i])])
           IN  CHOOSE r \in 0..bound : r * r <= SumSq(v) /\ (r + 1) * (r + 1) > SumSq(v)

\* mutant of NormalizeL2: a row of norm 0 is replaced by the first unit vector
NormalizeL2UnitFallback(v) ==
    IF SumSq(v) > 0
    THEN [i \in 1..Len(v) |-> (v[i] * One) \div Norm(v)]
    ELSE [i \in 1..Len(v) |-> IF i = 1 THEN One ELSE 0]

\* faiss.normalize_L2 on one row: x / ||x||, a row of norm 0 is left alone
NormalizeL2(v) ==
    IF SumSq(v) > 0 THEN [i \in 1..Len(v) |-> (v[i] * One) \div Norm(v)] ELSE v

\* inner product of two rows of equal length
InnerProduct(a, b) == SumSeq([i \in 1..Len(a) |-> a[i] * b[i]]) \div One

\* ------------------------------------------------------------ the corpus
Urls == {"https://odoo/sales.html", "https://odoo/stock.html"}

\* what the crawler records for a page (url, path_slug, filename)
PageInfo(u) ==
    IF u = "https://odoo/sales.html"
    THEN [url |-> u, path_slug |-> "sales", filename |-> <<"sales", ".html">>]
    ELSE [url |-> u, path_slug |-> "stock", filename |-> <<"stock", ".html", ".html">>]

\* raw embeddings a snapshot may hold: 0, (6,8), (4,3) in fixed point
StoredVecs == {<<0, 0>>, <<150, 200>>, <<100, 75>>}

\* vectors a caller (or the embedding capability) may hand in:
\* 0, (3,4), (-3,-4) of the corpus dimension, and (5) and () of another one
GoodQueryVecs == {<<0, 0>>, <<75, 100>>, <<-75, -100>>}
BadQueryVecs == {<<125>>, <<>>}
QueryVecs == GoodQueryVecs \cup BadQueryVecs

\* the chunk record data_processor.process_all_docs appends for chunk j of a page
MkDoc(u, j, total) ==
    [url |-> u,
     path_slug |-> PageInfo(u).path_slug,
     filename |-> PageInfo(u).filename,
     chunk_id |-> <<PageInfo(u).path_slug, "_chunk_", ToString(j)>>,
     content |-> <<"About", PageInfo(u).path_slug, "part", ToString(j)>>,
     chunk_index |-> j,
     total_chunks |-> total]

\* the chunk records of a snapshot whose chunks come, in corpus order, from
\* the pages `pages`
DocsOf(pages) ==
    [i \in 1..Len(pages) |->
        MkDoc(pages[i],
              Cardinality({h \in 1..(i - 1) : pages[h] = pages[i]}),
              Cardinality({h \in 1..Len(pages) : pages[h] = pages[i]}))]

\* the pickle embedding_system.process_documents writes
Snapshots ==
    {[documents |-> DocsOf(pages), embeddings |-> embs,
      embedding_dim |-> Len(embs[1]), total_docs |-> Len(pages)] :
        <<pages, embs>> \in
            UNION {[1..n -> Urls] \X [1..n -> StoredVecs] : n \in 1..MaxDocs}}

\* ------------------------------------------------ FAISS IndexFlatIP.search
\* A heap entry is <<similarity, id>>; CMin::cmp2 orders entries by
\* similarity and then by id.
Cmp2(a, b) == a[1] < b[1] \/ (a[1] = b[1] /\ a[2] < b[2])

HeapTop(h) == CHOOSE e \in h : \A f \in h : f = e \/ Cmp2(e, f)

\* HeapBlockResultHandler::add_result for ids j-1, j, ...: the heap holds k
\* slots, the unfilled ones being <<Lowest, -1>>; a candidate replaces the top
\* (least) slot when the top's similarity is strictly below its own.
RECURSIVE HeapAddAll(_, _, _, _)
HeapAddAll(h, k, sims, j) ==
    IF j > Len(sims) THEN h
    ELSE LET e == <<sims[j], j - 1>>
             h2 == IF Cardinality(h) < k
                   THEN (IF Lowest < sims[j] THEN h \cup {e} ELSE h)
                   ELSE (IF HeapTop(h)[1] < sims[j]
                         THEN (h \ {HeapTop(h)}) \cup {e} ELSE h)
         IN  HeapAddAll(h2, k, sims, j + 1)

\* heap_reorder: the top is popped and written to the end, repeatedly
RECURSIVE HeapReorder(_)
HeapReorder(h) ==
    IF h = {} THEN <<>>
    ELSE Append(HeapReorder(h \ {HeapTop(h)}), HeapTop(h))

\* index.search(x, k) for one query row: k pairs <<similarity, id>>, best
\* first, padded with <<Lowest, -1>> when the index holds fewer than k rows
IndexSearch(xb, x, k) ==
    LET sims == [j \in 1..Len(xb) |-> InnerProduct(x, xb[j])]
        found == HeapReorder(HeapAddAll({}, k, sims, 1))
    IN  found \o [i \in 1..(k - Len(found)) |-> <<Lowest, 0 - 1>>]

\* ------------------------------------------------------- VectorDatabase
\* self.index = None
NoIndex == <<>>

Return(v) == [kind |-> "return", value |-> v]
Raise(e) == [kind |-> "raise", exc |-> e]

\* documents[idx] with Python's indexing (idx is 0-based, a negative idx
\* counts from the end)
PyIndex(seq, idx) == IF idx < 0 THEN seq[Len(seq) + idx + 1] ELSE seq[idx + 1]

\* mutant of ValidIndex: the bound is off by one
ValidIndexOffByOne(idx, docs) == idx < Len(docs) - 1

\* the test of line 64
ValidIndex(idx, docs) == idx < Len(docs)

\* mutant of FormatResults: a hit whose similarity is not above 0 is dropped
RECURSIVE FormatResultsAboveZero(_, _, _)
FormatResultsAboveZero(hits, docs, i) ==
    IF i > Len(hits) THEN <<>>
    ELSE IF ValidIndex(hits[i][2], docs) /\ hits[i][1] > 0
         THEN <<[similarity |-> hits[i][1], rank |-> i] @@ PyIndex(docs, hits[i][2])>>
              \o FormatResultsAboveZero(hits, docs, i + 1)
         ELSE FormatResultsAboveZero(hits, docs, i + 1)

\* the loop of search, lines 62-68, from position i of the hits on
RECURSIVE FormatResults(_, _, _)
FormatResults(hits, docs, i) ==
    IF i > Len(hits) THEN <<>>
    ELSE IF ValidIndex(hits[i][2], docs)
         THEN <<[similarity |-> hits[i][1], rank |-> i] @@ PyIndex(docs, hits[i][2])>>
              \o FormatResults(hits, docs, i + 1)
         ELSE FormatResults(hits, docs, i + 1)

\* mutant of SearchOutcome: a query of another length is cut or zero-padded
\* to the dimension of the index instead of being refused
SearchOutcomeFitted(idx, docs, query_embedding, top_k) ==
    IF idx = NoIndex THEN Raise("ValueError")
    ELSE LET query_vector ==
                 [i \in 1..idx[1].d |->
                     IF i <= Len(query_embedding)
                     THEN NormalizeL2(query_embedding)[i] ELSE 0] IN
         IF top_k <= 0 THEN Raise("AssertionError")
         ELSE IF top_k > Len(idx[1].xb) /\ docs = <<>> THEN Raise("IndexError")
         ELSE Return(FormatResults(IndexSearch(idx[1].xb, query_vector, top_k), docs, 1))

\* VectorDatabase.search as a function of the database and its arguments
SearchOutcome(idx, docs, query_embedding, top_k) ==
    IF idx = NoIndex THEN Raise("ValueError")
    ELSE LET query_vector == NormalizeL2(query_embedding) IN
         IF Len(query_vector) # idx[1].d THEN Raise("AssertionError")
         ELSE IF top_k <= 0 THEN Raise("AssertionError")
         ELSE IF top_k > Len(idx[1].xb) /\ docs = <<>> THEN Raise("IndexError")
         ELSE Return(FormatResults(IndexSearch(idx[1].xb, query_vector, top_k), docs, 1))

\* mutant of DocumentsAfterSearch: line 65 without .copy(), so that lines 66
\* and 67 write similarity and rank into the stored record
DocumentsAfterSearchNoCopy(idx, docs, query_embedding, top_k) ==
    LET out == SearchOutcome(idx, docs, query_embedding, top_k) IN
    IF out.kind # "return" THEN docs
    ELSE [i \in 1..Len(docs) |->
            IF \E r \in 1..Len(out.value) : out.value[r].chunk_id = docs[i].chunk_id
            THEN LET r == CHOOSE r \in 1..Len(out.value) :
                              /\ out.value[r].chunk_id = docs[i].chunk_id
                              /\ \A q \in 1..Len(out.value) :
                                     out.value[q].chunk_id = docs[i].chunk_id => q <= r
                 IN  [similarity |-> out.value[r].similarity,
                      rank |-> out.value[r].rank] @@ docs[i]
            ELSE docs[i]]

\* self.documents once search has run: line 65 copies the record it is about
\* to extend, so the stored records are the ones search found
DocumentsAfterSearch(idx, docs, query_embedding, top_k) == docs

\* the orders list(unique_paths) may give a set of strings (get_stats, line 99)
Orderings(S) ==
    {s \in [1..Cardinality(S) -> S] : \A i, j \in 1..Cardinality(S) : i # j => s[i] # s[j]}

\* np.mean of a list of counts, as the pair <<sum, length>>
Mean(xs) == <<SumSeq(xs), Len(xs)>>

\* VectorDatabase.get_stats, given the order in which the set of paths is listed
GetStatsOutcome(docs, dim, listed_paths) ==
    IF docs = <<>> THEN [error |-> "No documents loaded"]
    ELSE LET unique_paths == {docs[i].path_slug : i \in 1..Len(docs)}
             chunks_per_doc == [p \in unique_paths |->
                                   Cardinality({i \in 1..Len(docs) : docs[i].path_slug = p})]
             values == [i \in 1..Len(listed_paths) |-> chunks_per_doc[listed_paths[i]]]
         IN  [total_chunks |-> Len(docs),
              unique_documents |-> Cardinality(unique_paths),
              embedding_dimension |-> dim,
              average_chunks_per_doc |-> Mean(values),
              max_chunks_per_doc |-> CHOOSE m \in {values[i] : i \in 1..Len(values)} :
                                        \A i \in 1..Len(values) : values[i] <= m,
              sample_paths |-> SubSeq(listed_paths, 1, Min(5, Len(listed_paths)))]

\* --------------------------------------------------------------- texts
\* str.lower() on one word (every capitalised word of the model's texts)
LowerWord(w) ==
    CASE w = "I" -> "i"
      [] w = "Don't" -> "don't"
      [] w = "KNOW" -> "know"
      [] w = "NO" -> "no"
      [] w = "Information" -> "information"
      [] w = "The" -> "the"
      [] w = "There" -> "there"
      [] w = "Cannot" -> "cannot"
      [] w = "Sorry," -> "sorry,"
      [] w = "How" -> "how"
      [] w = "Odoo" -> "odoo"
      [] w = "General" -> "general"
      [] w = "Based" -> "based"
      [] w = "Error" -> "error"
      [] w = "A" -> "a"
      [] w = "WARN" -> "warn"
      [] OTHER -> w

Lower(t) == [i \in 1..Len(t) |-> LowerWord(t[i])]

\* m in t, for texts
IsInfix(m, t) ==
    \E i \in 0..(Len(t) - Len(m)) : \A j \in 1..Len(m) : t[i + j] = m[j]

\* the list of lines 95-103
UnknownIndicators ==
    { <<"i", "don't", "know">>,
      <<"i", "couldn't", "find">>,
      <<"the", "provided", "documentation", "does", "not", "contain">>,
      <<"not", "available", "in", "the", "documentation">>,
      <<"no", "information">>,
      <<"cannot", "find">>,
      <<"unclear", "from", "the", "documentation">> }

\* OdooRAGSystem._is_unknown_response
IsUnknownResponse(answer) ==
    \E indicator \in UnknownIndicators : IsInfix(indicator, Lower(answer))

\* the questions a caller asks (the second holds an indicator phrase)
Queries == { <<"How", "to", "invoice?">>, <<"I", "don't", "know", "Odoo">> }

\* texts the synthesis capability may return ("WARN" is the warning sign)
GenTexts ==
    { <<"WARN", "General", "knowledge:", "A">>,
      <<"Sorry,", "I", "Don't", "KNOW">> }

\* str(e) of the exceptions the synthesis capability may raise
ErrTexts == { <<"quota", "exceeded">>, <<"Cannot", "find", "model">> }

\* what one call of generator.generate_content (and reading response.text) does
GenOutcomes ==
    {[ok |-> TRUE, text |-> t, error |-> <<>>] : t \in GenTexts}
    \cup {[ok |-> FALSE, text |-> <<>>, error |-> e] : e \in ErrTexts}

\* what one call of genai.embed_content does
EmbedVecs == {<<0, 0>>, <<75, 100>>, <<125>>}
EmbedOutcomes ==
    {[ok |-> TRUE, value |-> v] : v \in EmbedVecs} \cup {[ok |-> FALSE, value |-> <<>>]}

\* ------------------------------------------------------- OdooRAGSystem
\* the string of line 137
Apology(query) ==
    <<"WARN", "Based", "on", "general", "knowledge:", "I", "can", "provide", "an",
      "educated", "guess", "about", "'">> \o query
    \o <<"'", ",", "but", "I'd", "recommend", "checking", "the", "latest", "Odoo",
         "documentation">>

\* mutant of FallbackAnswer: the failure is reported as generate_answer does
FallbackAnswerReportsError(query, o) ==
    IF o.ok THEN o.text ELSE <<"Error", "generating", "response:">> \o o.error

\* _generate_fallback_answer, given what its synthesis call did
FallbackAnswer(query, o) == IF o.ok THEN o.text ELSE Apology(query)

\* generate_answer lines 81-91, given what its synthesis call did, up to the
\* fallback (line 87)
GroundedAnswer(o) ==
    IF o.ok THEN o.text ELSE <<"Error", "generating", "response:">> \o o.error

\* doc['filename'].replace('.html', '')
Title(filename) == SelectSeq(filename, LAMBDA w : w # ".html")

PreviewLen == 200

\* mutant of Preview: a content of exactly 200 characters is cut as well
PreviewCutAtLimit(content) ==
    IF Len(content) >= PreviewLen
    THEN SubSeq(content, 1, PreviewLen) \o <<"...">>
    ELSE content

\* doc['content'][:200] + "..." if len(doc['content']) > 200 else doc['content']
Preview(content) ==
    IF Len(content) > PreviewLen
    THEN SubSeq(content, 1, PreviewLen) \o <<"...">>
    ELSE content

\* the dict of lines 176-182 (and 235-241)
SourceEntry(doc) ==
    [title |-> Title(doc.filename),
     path |-> doc.path_slug,
     url |-> doc.url,
     similarity |-> doc.similarity,
     preview |-> Preview(doc.content)]

\* mutant of IsNewUrl: the url seen before is not looked up
IsNewUrlUnchecked(url, seen_urls) == TRUE

\* the test of line 174 (and 233)
IsNewUrl(url, seen_urls) == url \notin seen_urls

\* mutant of FormatSources: the last chunk of a url is kept, not the first
RECURSIVE FormatSourcesKeepLast(_, _)
FormatSourcesKeepLast(docs, seen_urls) ==
    IF docs = <<>> THEN <<>>
    ELSE IF \E i \in 2..Len(docs) : docs[i].url = Head(docs).url
         THEN FormatSourcesKeepLast(Tail(docs), seen_urls)
         ELSE <<SourceEntry(Head(docs))>> \o FormatSourcesKeepLast(Tail(docs), seen_urls)

\* the loop of lines 172-182 (and 231-241)
RECURSIVE FormatSources(_, _)
FormatSources(docs, seen_urls) ==
    IF docs = <<>> THEN <<>>
    ELSE IF IsNewUrl(Head(docs).url, seen_urls)
         THEN <<SourceEntry(Head(docs))>>
              \o FormatSources(Tail(docs), seen_urls \cup {Head(docs).url})
         ELSE FormatSources(Tail(docs), seen_urls)

\* mutant of EmptyRetrievalResult: from_docs is computed as on line 167
EmptyRetrievalResultByAnswer(query, fallback_answer) ==
    [query |-> query, answer |-> fallback_answer, sources |-> <<>>,
     from_docs |-> ~IsUnknownResponse(fallback_answer)]

\* the result of lines 156-161
EmptyRetrievalResult(query, fallback_answer) ==
    [query |-> query, answer |-> fallback_answer, sources |-> <<>>, from_docs |-> FALSE]

\* from_docs of line 167
FromDocs(answer) == ~IsUnknownResponse(answer)

\* mutant of TextResult: the sources are listed only with an answer taken
\* to come from the documentation
TextResultSourcesWhenGrounded(query, answer, docs) ==
    [query |-> query,
     answer |-> answer,
     sources |-> IF FromDocs(answer) THEN FormatSources(docs, {}) ELSE <<>>,
     retrieved_docs_count |-> Len(docs),
     from_docs |-> FromDocs(answer)]

\* the result of lines 167-190
TextResult(query, answer, docs) ==
    [query |-> query,
     answer |-> answer,
     sources |-> FormatSources(docs, {}),
     retrieved_docs_count |-> Len(docs),
     from_docs |-> FromDocs(answer)]

\* mutant of VisionResult: an answer holding an indicator phrase is replaced
\* as on the text path
VisionResultRerouted(query, answer, docs) ==
    LET sources == IF docs # <<>> THEN FormatSources(docs, {}) ELSE <<>>
    IN  [query |-> query,
         answer |-> IF IsUnknownResponse(answer) THEN Apology(query) ELSE answer,
         sources |-> sources,
         from_docs |-> Len(sources) > 0,
         image_analysis |-> TRUE]

\* mutant of VisionFromDocs: an answer to an image always counts as taken
\* from the documentation
VisionFromDocsAlways(sources) == TRUE

\* from_docs of line 247
VisionFromDocs(sources) == Len(sources) > 0

\* the result of lines 227-249
VisionResult(query, answer, docs) ==
    LET sources == IF docs # <<>> THEN FormatSources(docs, {}) ELSE <<>>
    IN  [query |-> query,
         answer |-> answer,
         sources |-> sources,
         from_docs |-> VisionFromDocs(sources),
         image_analysis |-> TRUE]

\* mutant of VisionErrorResult: the sources retrieved before the failure are
\* listed
VisionErrorResultKeepsSources(query, e) ==
    [query |-> query,
     answer |-> <<"X", "Error", "analyzing", "image:">> \o e,
     sources |-> FormatSources(retrieved_docs, {}),
     from_docs |-> retrieved_docs # <<>>,
     image_analysis |-> TRUE]

\* the result of lines 251-259; e is str(e)
VisionErrorResult(query, e) ==
    [query |-> query,
     answer |-> <<"X", "Error", "analyzing", "image:">> \o e,
     sources |-> <<>>,
     from_docs |-> FALSE,
     image_analysis |-> TRUE]

\* images a caller passes: none, a readable image, unreadable bytes
Images == {"None", "png", "corrupt"}

\* `if image_data:`
Truthy(image_data) == image_data \in {"png", "corrupt"}

\* top_k of the retrieval on the vision path (line 203)
VisionTopK == 3

\* str(e) of an exception raised by search
ExcText(exc) == IF exc = "AssertionError" THEN <<>> ELSE <<exc>>

TopKs == 0..MaxTopK

Pending == [kind |-> "pending"]
NoCall == [op |-> "none"]

\* the threads that may run a call each at the same time (the Flask server
\* of app_flask.py hands every request to the one OdooRAGSystem)
Threads == {1, 2}

\* a thread that runs no call
IdleFrame ==
    [pc |-> "idle", call |-> NoCall, retrieved_docs |-> <<>>, log |-> <<>>, ret |-> Pending,
     met |-> FALSE]

\* no source entry is being made
EntryIdle == entry_doc = <<>> /\ entry_out = <<>> /\ entry_pc = "idle"

\* chunk_text is not running
ChunkIdle ==
    /\ text = <<>> /\ chunk_size = 0 /\ overlap = 0
    /\ start = 0 /\ chunks = <<>> /\ chunk_pc = "idle"

\* the crawler and the document processor are not running
CrawlIdle ==
    /\ site = <<>> /\ queue = <<>> /\ visited_urls = {} /\ html_links = <<>>
    /\ dequeued = <<>> /\ fetched = <<>> /\ csv_rows = <<>>
    /\ processed_docs = <<>> /\ crawl_pc = "idle"

ToolsIdle == EntryIdle /\ ChunkIdle /\ CrawlIdle

\* ---------------------------------------------------------------- Init
\* VectorDatabase.__init__
Init ==
    /\ documents = <<>>
    /\ embeddings = <<>>
    /\ dimension = 0
    /\ index = NoIndex
    /\ pc = "idle"
    /\ call = NoCall
    /\ retrieved_docs = <<>>
    /\ log = <<>>
    /\ ret = Pending
    /\ frames = [t \in Threads |-> IdleFrame]
    /\ ToolsIdle

\* ------------------------------------------------------------- actions
\* VectorDatabase.load_embeddings, called once at startup
LoadEmbeddings ==
    /\ pc = "idle"
    /\ documents = <<>> /\ embeddings = <<>> /\ index = NoIndex
    /\ \E data \in Snapshots :
        /\ documents' = data.documents
        /\ embeddings' = data.embeddings
        /\ dimension' = data.embedding_dim
    /\ call' = [op |-> "load_embeddings"]
    /\ ret' = Return(<<>>)
    /\ pc' = "done"
    /\ UNCHANGED <<index, retrieved_docs, log>>
    /\ UNCHANGED <<frames, toolvars>>

\* VectorDatabase.build_index, called once at startup
BuildIndex ==
    /\ pc = "idle"
    /\ index = NoIndex
    /\ call' = [op |-> "build_index"]
    /\ IF Len(embeddings) = 0
       THEN /\ ret' = Raise("ValueError")
            /\ UNCHANGED <<embeddings, index>>
       ELSE /\ embeddings' = [i \in 1..Len(embeddings) |-> NormalizeL2(embeddings[i])]
            /\ IF Len(embeddings[1]) = dimension
               THEN /\ index' = <<[d |-> dimension, xb |-> embeddings']>>
                    /\ ret' = Return(<<>>)
               ELSE \* line 44 has stored the new, empty index when add (line 45)
                    \* refuses rows whose length is not the index's d
                    /\ index' = <<[d |-> dimension, xb |-> <<>>]>>
                    /\ ret' = Raise("AssertionError")
    /\ pc' = "done"
    /\ UNCHANGED <<documents, dimension, retrieved_docs, log>>
    /\ UNCHANGED <<frames, toolvars>>

\* VectorDatabase.search, called directly
Search ==
    /\ pc = "idle"
    /\ \E query_embedding \in QueryVecs, top_k \in TopKs :
        /\ call' = [op |-> "search", query_embedding |-> query_embedding, top_k |-> top_k]
        /\ ret' = SearchOutcome(index, documents, query_embedding, top_k)
        /\ documents' = DocumentsAfterSearch(index, documents, query_embedding, top_k)
    /\ pc' = "done"
    /\ UNCHANGED <<embeddings, dimension, index, retrieved_docs, log>>
    /\ UNCHANGED <<frames, toolvars>>

\* VectorDatabase.get_stats, called directly or through get_system_stats
GetStats ==
    /\ pc = "idle"
    /\ call' = [op |-> "get_stats"]
    /\ \E listed_paths \in Orderings({documents[i].path_slug : i \in 1..Len(documents)}) :
        ret' = Return(GetStatsOutcome(documents, dimension, listed_paths))
    /\ pc' = "done"
    /\ UNCHANGED <<dbvars, retrieved_docs, log>>
    /\ UNCHANGED <<frames, toolvars>>

\* OdooRAGSystem.ask up to its first capability call (lines 139-151, 192-203);
\* the system exists once __init__ has loaded and built the index
AskStart ==
    /\ pc = "idle"
    /\ index # NoIndex
    /\ \E query \in Queries, top_k \in TopKs, image_data \in Images :
        /\ call' = [op |-> "ask", query |-> query, top_k |-> top_k,
                    image_data |-> image_data]
        /\ IF image_data = "corrupt"
           THEN /\ pc' = "done"
                /\ ret' = Return(VisionErrorResult(query, <<"cannot", "identify", "image", "file">>))
           ELSE /\ pc' = "embed"
                /\ ret' = Pending
    /\ UNCHANGED <<dbvars, retrieved_docs, log>>
    /\ UNCHANGED <<frames, toolvars>>

\* mutant of RetrievalTopK: the vision path passes the caller's top_k on
RetrievalTopKOfCaller == call.top_k

\* top_k of the search made for the call in progress
RetrievalTopK == IF Truthy(call.image_data) THEN VisionTopK ELSE call.top_k

\* mutant of Retrieve: the test `if not query_embedding` of line 42 is left
\* out, and search is handed None where a vector is expected
RetrieveNoneUnchecked(emb) ==
    LET searched == emb.ok /\ emb.value # <<>>
        out == IF ~emb.ok THEN Raise("TypeError")
               ELSE IF emb.value = <<>> THEN Return(<<>>)
               ELSE SearchOutcome(index, documents, emb.value, RetrievalTopK)
    IN  /\ documents' = IF searched
                        THEN DocumentsAfterSearch(index, documents, emb.value, RetrievalTopK)
                        ELSE documents
        /\ IF out.kind = "raise"
           THEN /\ retrieved_docs' = <<>>
                /\ pc' = "done"
                /\ ret' = IF Truthy(call.image_data)
                          THEN Return(VisionErrorResult(call.query, ExcText(out.exc)))
                          ELSE out
           ELSE /\ retrieved_docs' = out.value
                /\ ret' = Pending
                /\ pc' = IF Truthy(call.image_data) THEN "vision"
                         ELSE IF out.value = <<>> THEN "fallback" ELSE "generate"

\* retrieve_relevant_docs from line 40 on, given the embedding (emb.ok is
\* false for None), and its caller up to the next capability call
Retrieve(emb) ==
    LET searched == emb.ok /\ emb.value # <<>>
        out == IF searched
               THEN SearchOutcome(index, documents, emb.value, RetrievalTopK)
               ELSE Return(<<>>)
    IN  /\ documents' = IF searched
                        THEN DocumentsAfterSearch(index, documents, emb.value, RetrievalTopK)
                        ELSE documents
        /\ IF out.kind = "raise"
           THEN /\ retrieved_docs' = <<>>
                /\ pc' = "done"
                /\ ret' = IF Truthy(call.image_data)
                          THEN Return(VisionErrorResult(call.query, ExcText(out.exc)))
                          ELSE out
           ELSE /\ retrieved_docs' = out.value
                /\ ret' = Pending
                /\ pc' = IF Truthy(call.image_data) THEN "vision"
                         ELSE IF out.value = <<>> THEN "fallback" ELSE "generate"

\* the call of vector_db.search retrieve_relevant_docs makes with the
\* embedding (line 44), none when the embedding is None or empty
SearchCalls(emb) ==
    IF emb.ok /\ emb.value # <<>>
    THEN <<[cap |-> "search", query_embedding |-> emb.value, top_k |-> RetrievalTopK]>>
    ELSE <<>>

\* generate_embedding: embed_content with task_type (lines 32-37)
Embed ==
    /\ pc = "embed"
    /\ \E o \in EmbedOutcomes :
        /\ log' = Append(log, [cap |-> "embed", task_type |-> "RETRIEVAL_QUERY", out |-> o])
                    \o SearchCalls(o)
        /\ IF o.ok
           THEN Retrieve(o)
           ELSE /\ pc' = "embed_retry"
                /\ UNCHANGED <<documents, retrieved_docs, ret>>
    /\ UNCHANGED <<embeddings, dimension, index, call>>
    /\ UNCHANGED <<frames, toolvars>>

\* generate_embedding: embed_content without task_type (lines 42-50)
EmbedRetry ==
    /\ pc = "embed_retry"
    /\ \E o \in EmbedOutcomes :
        /\ log' = Append(log, [cap |-> "embed", task_type |-> "unspecified", out |-> o])
                    \o SearchCalls(o)
        /\ Retrieve(o)
    /\ UNCHANGED <<embeddings, dimension, index, call>>
    /\ UNCHANGED <<frames, toolvars>>

\* mutant of Generate: a failure of the grounded synthesis call is handed to
\* the fallback synthesis as a marker phrase is
GenerateFallsBackOnError ==
    /\ pc = "generate"
    /\ \E o \in GenOutcomes :
        /\ log' = Append(log, [cap |-> "generate", kind |-> "grounded", out |-> o])
        /\ IF ~o.ok \/ IsUnknownResponse(o.text)
           THEN /\ pc' = "fallback"
                /\ ret' = Pending
           ELSE /\ pc' = "done"
                /\ ret' = Return(TextResult(call.query, GroundedAnswer(o), retrieved_docs))
    /\ UNCHANGED <<dbvars, call, retrieved_docs>>
    /\ UNCHANGED <<frames, toolvars>>

\* generate_answer: the grounded synthesis call (lines 81-91), then ask to
\* its return unless the fallback is called
Generate ==
    /\ pc = "generate"
    /\ \E o \in GenOutcomes :
        /\ log' = Append(log, [cap |-> "generate", kind |-> "grounded", out |-> o])
        /\ IF o.ok /\ IsUnknownResponse(o.text)
           THEN /\ pc' = "fallback"
                /\ ret' = Pending
           ELSE /\ pc' = "done"
                /\ ret' = Return(TextResult(call.query, GroundedAnswer(o), retrieved_docs))
    /\ UNCHANGED <<dbvars, call, retrieved_docs>>
    /\ UNCHANGED <<frames, toolvars>>

\* mutant of Fallback: after a marker in the grounded answer the grounded
\* text is returned, whatever the fallback synthesis gave
FallbackOutputDiscarded ==
    /\ pc = "fallback"
    /\ \E o \in GenOutcomes :
        /\ log' = Append(log, [cap |-> "generate", kind |-> "fallback", out |-> o])
        /\ ret' = IF retrieved_docs = <<>>
                  THEN Return(EmptyRetrievalResult(call.query, FallbackAnswer(call.query, o)))
                  ELSE Return(TextResult(call.query, log[Len(log)].out.text, retrieved_docs))
    /\ pc' = "done"
    /\ UNCHANGED <<dbvars, call, retrieved_docs>>
    /\ UNCHANGED <<frames, toolvars>>

\* _generate_fallback_answer (lines 133-137), then ask to its return
Fallback ==
    /\ pc = "fallback"
    /\ \E o \in GenOutcomes :
        /\ log' = Append(log, [cap |-> "generate", kind |-> "fallback", out |-> o])
        /\ ret' = IF retrieved_docs = <<>>
                  THEN Return(EmptyRetrievalResult(call.query, FallbackAnswer(call.query, o)))
                  ELSE Return(TextResult(call.query, FallbackAnswer(call.query, o),
                                         retrieved_docs))
    /\ pc' = "done"
    /\ UNCHANGED <<dbvars, call, retrieved_docs>>
    /\ UNCHANGED <<frames, toolvars>>

\* _ask_with_image: the synthesis call with the image (line 224) to the return
VisionGenerate ==
    /\ pc = "vision"
    /\ \E o \in GenOutcomes :
        /\ log' = Append(log, [cap |-> "generate", kind |-> "vision", out |-> o])
        /\ ret' = IF o.ok
                  THEN Return(VisionResult(call.query, o.text, retrieved_docs))
                  ELSE Return(VisionErrorResult(call.query, o.error))
    /\ pc' = "done"
    /\ UNCHANGED <<dbvars, call, retrieved_docs>>
    /\ UNCHANGED <<frames, toolvars>>

\* the caller takes what the call returned or raised; the call's locals are gone
ReturnToCaller ==
    /\ pc = "done"
    /\ pc' = "idle"
    /\ call' = NoCall
    /\ retrieved_docs' = <<>>
    /\ log' = <<>>
    /\ ret' = Pending
    /\ UNCHANGED dbvars
    /\ UNCHANGED <<frames, toolvars>>

Next ==
    \/ LoadEmbeddings
    \/ BuildIndex
    \/ Search
    \/ GetStats
    \/ AskStart
    \/ Embed
    \/ EmbedRetry
    \/ Generate
    \/ Fallback
    \/ VisionGenerate
    \/ ReturnToCaller

Spec == Init /\ [][Next]_vars

\* ------------------------------------------------- the snapshot on disk
\* What load_embeddings can find at embeddings_path: no file, a file that
\* pickle.load refuses, or a pickled dict.  The dicts are the snapshots
\* process_documents writes and three damaged forms of each: a declared
\* embedding_dim that is not the length of the vectors, the last vector
\* missing, and a first vector that is shorter than the others.
WrongDim(data) == [data EXCEPT !.embedding_dim = @ - 1]

FewerVectors(data) ==
    [data EXCEPT !.embeddings = SubSeq(@, 1, Len(@) - 1)]

Ragged(data) == [data EXCEPT !.embeddings[1] = <<@[1]>>]

DamagedSnapshots ==
    {WrongDim(data) : data \in Snapshots}
    \cup {FewerVectors(data) : data \in {d \in Snapshots : Len(d.embeddings) > 1}}
    \cup {Ragged(data) : data \in {d \in Snapshots : Len(d.embeddings) > 1}}

SnapshotFiles ==
    {[kind |-> "missing"], [kind |-> "malformed"]}
    \cup {[kind |-> "dict", data |-> data] : data \in Snapshots \cup DamagedSnapshots}

\* np.array(rows, dtype=np.float32) takes rows of one length only
Rectangular(rows) == \A i \in 1..Len(rows) : Len(rows[i]) = Len(rows[1])

\* VectorDatabase.load_embeddings on whatever is at embeddings_path
LoadFile ==
    /\ pc = "idle"
    /\ embeddings = <<>> /\ index = NoIndex
    /\ \E file \in SnapshotFiles :
        /\ call' = [op |-> "load_embeddings", file |-> file]
        /\ IF file.kind = "missing"
           THEN /\ ret' = Raise("FileNotFoundError")
                /\ UNCHANGED <<documents, embeddings, dimension>>
           ELSE IF file.kind = "malformed"
           THEN /\ ret' = Raise("UnpicklingError")
                /\ UNCHANGED <<documents, embeddings, dimension>>
           ELSE /\ documents' = file.data.documents
                /\ IF Rectangular(file.data.embeddings)
                   THEN /\ embeddings' = file.data.embeddings
                        /\ dimension' = file.data.embedding_dim
                        /\ ret' = Return(<<>>)
                   ELSE /\ ret' = Raise("ValueError")
                        /\ UNCHANGED <<embeddings, dimension>>
    /\ pc' = "done"
    /\ UNCHANGED <<index, retrieved_docs, log>>
    /\ UNCHANGED <<frames, toolvars>>

LoadNext ==
    \/ LoadFile
    \/ BuildIndex
    \/ Search
    \/ ReturnToCaller

\* the vector database used on its own, over any file
LoadSpec == Init /\ [][LoadNext]_vars

\* ------------------------------------------------ one source entry made
\* The dict of lines 176-182 made from one retrieved chunk, over file names
\* and contents the chunks of Snapshots do not have.  A file name is a
\* sequence of pieces, ".html" being one piece; a content is here a sequence
\* of characters, "..." standing for the three characters appended.
MaxNameLen == 3

MaxOver == 2

Filenames == UNION {[1..n -> {"sales", ".html"}] : n \in 0..MaxNameLen}

ContentLens == (0..MaxOver) \cup ((PreviewLen - MaxOver)..(PreviewLen + MaxOver))

\* a content of n characters, no two neighbours alike
ContentOfLen(n) == [i \in 1..n |-> ToString(i % 10)]

EntryDocs ==
    {[similarity |-> One, rank |-> 1]
     @@ [MkDoc(u, 0, 1) EXCEPT !.filename = f, !.content = ContentOfLen(n)] :
        u \in Urls, f \in Filenames, n \in ContentLens}

EntryInit ==
    /\ documents = <<>>
    /\ embeddings = <<>>
    /\ dimension = 0
    /\ index = NoIndex
    /\ pc = "idle"
    /\ call = NoCall
    /\ retrieved_docs = <<>>
    /\ log = <<>>
    /\ ret = Pending
    /\ frames = [t \in Threads |-> IdleFrame]
    /\ ChunkIdle /\ CrawlIdle
    /\ entry_doc \in EntryDocs
    /\ entry_out = <<>>
    /\ entry_pc = "doc"

\* sources.append({...}) for the chunk
MakeEntry ==
    /\ entry_pc = "doc"
    /\ entry_out' = SourceEntry(entry_doc)
    /\ entry_pc' = "entry"
    /\ UNCHANGED <<entry_doc, chunkvars, crawlvars>>
    /\ UNCHANGED <<dbvars, seqvars, frames>>

EntryNext == MakeEntry

EntrySpec == EntryInit /\ [][EntryNext]_vars

\* ------------------------------------------- the crawler and the chunker
\* The site is a set of index pages (directories), each a list of links to
\* directories and to HTML pages; the HTML pages are those of Urls.
StartUrl == "https://odoo/"

Dirs == {StartUrl, "https://odoo/sales/"}

MaxLinks == 2

LinkLists == UNION {[1..n -> Dirs \cup Urls] : n \in 0..MaxLinks}

Sites == [Dirs -> LinkLists]

\* link_info['is_html'] and link_info['is_directory'] of a link to url
IsHtml(url) == url \in Urls

IsDirectory(url) == url \in Dirs

\* mutant of VisitedAfterCrawlPage: the url is marked only when the fetch succeeded
VisitedOnlyOnSuccess(url, visited, ok) == IF ok THEN visited \cup {url} ELSE visited

\* crawl_page line 78: the url is marked before the fetch is tried
VisitedAfterCrawlPage(url, visited, ok) == visited \cup {url}

\* what crawl_page(url) returns: nothing for a url visited before or a
\* failed fetch, the links of the page otherwise
CrawlPage(url, visited, ok) ==
    IF url \in visited THEN <<>>
    ELSE IF ok THEN site[url] ELSE <<>>

\* the entries lines 110-114 append for the links, in order
RECURSIVE HtmlLinksOf(_)
HtmlLinksOf(links) ==
    IF links = <<>> THEN <<>>
    ELSE IF IsHtml(Head(links))
         THEN <<PageInfo(Head(links))>> \o HtmlLinksOf(Tail(links))
         ELSE HtmlLinksOf(Tail(links))

\* the urls lines 117-120 append to the queue for the links, in order
QueuedOf(links, visited) ==
    SelectSeq(links, LAMBDA url : ~IsHtml(url) /\ IsDirectory(url) /\ url \notin visited)

\* sorted(self.html_links, key=path_slug): a stable sort, "sales" before "stock"
SortedBySlug(links) ==
    SelectSeq(links, LAMBDA l : l.path_slug = "sales")
    \o SelectSeq(links, LAMBDA l : l.path_slug # "sales")

\* the number of chunks chunk_text cuts the text of a page into
PageChunkCount(u) == IF u = "https://odoo/sales.html" THEN 1 ELSE MaxDocs

\* the records lines 115-124 append for the csv rows from position i on;
\* the pages of `unusable` cannot be fetched or hold 100 characters or less
RECURSIVE ProcessedFrom(_, _, _)
ProcessedFrom(urls, i, unusable) ==
    IF i > Len(urls) THEN <<>>
    ELSE (IF urls[i].url \in unusable THEN <<>>
          ELSE [j \in 1..PageChunkCount(urls[i].url) |->
                   [url |-> urls[i].url,
                    path_slug |-> urls[i].path_slug,
                    filename |-> urls[i].filename,
                    chunk_id |-> <<urls[i].path_slug, "_chunk_", ToString(j - 1)>>,
                    content |-> MkDoc(urls[i].url, j - 1, 0).content,
                    chunk_index |-> j - 1,
                    total_chunks |-> PageChunkCount(urls[i].url)]])
         \o ProcessedFrom(urls, i + 1, unusable)

CrawlInit ==
    /\ documents = <<>>
    /\ embeddings = <<>>
    /\ dimension = 0
    /\ index = NoIndex
    /\ pc = "idle"
    /\ call = NoCall
    /\ retrieved_docs = <<>>
    /\ log = <<>>
    /\ ret = Pending
    /\ frames = [t \in Threads |-> IdleFrame]
    /\ EntryIdle /\ ChunkIdle
    /\ site \in Sites
    /\ queue = <<>> /\ visited_urls = {} /\ html_links = <<>>
    /\ dequeued = <<>> /\ fetched = <<>> /\ csv_rows = <<>>
    /\ processed_docs = <<>> /\ crawl_pc = "idle"

othervars == <<dbvars, seqvars, frames, entryvars, chunkvars>>

\* crawl, line 98
CrawlBegin ==
    /\ crawl_pc = "idle"
    /\ queue' = <<StartUrl>>
    /\ crawl_pc' = "crawl"
    /\ UNCHANGED <<site, visited_urls, html_links, dequeued, fetched, csv_rows, processed_docs>>
    /\ UNCHANGED othervars

\* one turn of the while loop of crawl, lines 100-120, crawl_page included
CrawlStep ==
    /\ crawl_pc = "crawl"
    /\ queue # <<>>
    /\ LET current_url == Head(queue) IN
       \E ok \in BOOLEAN :
           LET links == CrawlPage(current_url, visited_urls, ok) IN
           /\ current_url \in visited_urls => ok
           /\ dequeued' = Append(dequeued, current_url)
           /\ IF current_url \in visited_urls
              THEN UNCHANGED <<visited_urls, fetched>>
              ELSE /\ visited_urls' = VisitedAfterCrawlPage(current_url, visited_urls, ok)
                   /\ fetched' = Append(fetched, [url |-> current_url, ok |-> ok])
           /\ html_links' = html_links \o HtmlLinksOf(links)
           /\ queue' = Tail(queue) \o QueuedOf(links, visited_urls')
    /\ UNCHANGED <<site, csv_rows, processed_docs, crawl_pc>>
    /\ UNCHANGED othervars

\* the while loop ends, line 100
CrawlReturn ==
    /\ crawl_pc = "crawl"
    /\ queue = <<>>
    /\ crawl_pc' = "crawled"
    /\ UNCHANGED <<site, queue, visited_urls, html_links, dequeued, fetched, csv_rows,
                   processed_docs>>
    /\ UNCHANGED othervars

\* OdooCrawler.save_to_csv
SaveToCsv ==
    /\ crawl_pc = "crawled"
    /\ csv_rows' = SortedBySlug(html_links)
    /\ crawl_pc' = "saved"
    /\ UNCHANGED <<site, queue, visited_urls, html_links, dequeued, fetched, processed_docs>>
    /\ UNCHANGED othervars

\* OdooDocProcessor.process_all_docs over the csv file; max_docs = 0 stands
\* for None as well
ProcessAllDocs ==
    /\ crawl_pc = "saved"
    /\ \E max_docs \in 0..MaxDocs, unusable \in SUBSET Urls :
        LET urls == IF max_docs # 0
                    THEN SubSeq(csv_rows, 1, Min(max_docs, Len(csv_rows)))
                    ELSE csv_rows IN
        processed_docs' = ProcessedFrom(urls, 1, unusable)
    /\ crawl_pc' = "processed"
    /\ UNCHANGED <<site, queue, visited_urls, html_links, dequeued, fetched, csv_rows>>
    /\ UNCHANGED othervars

CrawlNext ==
    \/ CrawlBegin
    \/ CrawlStep
    \/ CrawlReturn
    \/ SaveToCsv
    \/ ProcessAllDocs

CrawlSpec == CrawlInit /\ [][CrawlNext]_vars

\* the crawler is one sequential program: while it has a step to take, it
\* takes it
CrawlFairSpec == CrawlSpec /\ WF_vars(CrawlNext)

\* ------------------------------------------------------------ chunk_text
\* A text is a sequence of characters: a letter, a full stop or a blank.
MaxTextLen == 6

MaxChunkSize == 5

\* the loop is followed for at most this many chunks
MaxChunks == 8

SentenceWindow == 100

Texts == UNION {[1..n -> {"a", ".", " "}] : n \in 0..MaxTextLen}

\* a slice bound as Python reads it: a negative one counts from the end
PyBound(b, len) == IF b < 0 THEN (IF b + len < 0 THEN 0 ELSE b + len)
                   ELSE (IF b > len THEN len ELSE b)

\* s[lo:hi]
PySlice(s, lo, hi) == SubSeq(s, PyBound(lo, Len(s)) + 1, PyBound(hi, Len(s)))

\* s.rfind('.', lo, hi)
PyRFind(s, lo, hi) ==
    LET found == {i \in PyBound(lo, Len(s))..(PyBound(hi, Len(s)) - 1) : s[i + 1] = "."}
    IN  IF found = {} THEN 0 - 1 ELSE CHOOSE i \in found : \A j \in found : j <= i

\* s.strip()
RECURSIVE Strip(_)
Strip(s) ==
    IF s = <<>> THEN s
    ELSE IF Head(s) = " " THEN Strip(Tail(s))
    ELSE IF s[Len(s)] = " " THEN Strip(SubSeq(s, 1, Len(s) - 1))
    ELSE s

\* the end of the chunk that starts at `from`, lines 81-89
ChunkEnd(s, size, from) ==
    LET end == from + size IN
    IF end < Len(s)
    THEN LET search_start == IF from > end - SentenceWindow THEN from
                             ELSE end - SentenceWindow
             sentence_end == PyRFind(s, search_start, end)
         IN  IF sentence_end # 0 - 1 /\ sentence_end > from + (size \div 2)
             THEN sentence_end + 1 ELSE end
    ELSE end

ChunkInit ==
    /\ documents = <<>>
    /\ embeddings = <<>>
    /\ dimension = 0
    /\ index = NoIndex
    /\ pc = "idle"
    /\ call = NoCall
    /\ retrieved_docs = <<>>
    /\ log = <<>>
    /\ ret = Pending
    /\ frames = [t \in Threads |-> IdleFrame]
    /\ EntryIdle /\ CrawlIdle
    /\ text \in Texts
    /\ chunk_size \in 1..MaxChunkSize
    /\ overlap \in 0..(chunk_size - 1)
    /\ start = 0
    /\ chunks = <<>>
    /\ chunk_pc = "idle"

nochunkvars == <<dbvars, seqvars, frames, entryvars, crawlvars>>

\* chunk_text up to its loop, lines 74-78
ChunkBegin ==
    /\ chunk_pc = "idle"
    /\ IF Len(text) <= chunk_size
       THEN chunks' = <<text>> /\ chunk_pc' = "done"
       ELSE chunks' = <<>> /\ chunk_pc' = "loop"
    /\ start' = 0
    /\ UNCHANGED <<text, chunk_size, overlap>>
    /\ UNCHANGED nochunkvars

\* one turn of the while loop, lines 80-96
ChunkStep ==
    /\ chunk_pc = "loop"
    /\ start < Len(text)
    /\ Len(chunks) < MaxChunks
    /\ LET end == ChunkEnd(text, chunk_size, start)
           chunk == Strip(PySlice(text, start, end)) IN
       /\ chunks' = IF chunk # <<>> THEN Append(chunks, chunk) ELSE chunks
       /\ start' = end - overlap
    /\ UNCHANGED <<text, chunk_size, overlap, chunk_pc>>
    /\ UNCHANGED nochunkvars

\* the loop test fails and chunk_text returns, lines 80 and 98
ChunkReturn ==
    /\ chunk_pc = "loop"
    /\ ~(start < Len(text))
    /\ chunk_pc' = "done"
    /\ UNCHANGED <<text, chunk_size, overlap, start, chunks>>
    /\ UNCHANGED nochunkvars

ChunkNext ==
    \/ ChunkBegin
    \/ ChunkStep
    \/ ChunkReturn

ChunkSpec == ChunkInit /\ [][ChunkNext]_vars

\* ----------------------------------------------------- calls run at once
\* One OdooRAGSystem serves every request (app_flask.py line 110), so calls
\* of ask and of search run at once, each in its thread with its own locals,
\* over the one VectorDatabase.  A thread takes the steps a call alone takes;
\* between two steps of a thread the other thread may take any of its own.

\* what the callers pass and what the capabilities do while calls run at once
ConcQueries == {<<"How", "to", "invoice?">>}
ConcTopKs == {1, MaxDocs}
ConcQueryVecs == {<<75, 100>>}
ConcEmbedOutcomes == {[ok |-> TRUE, value |-> <<75, 100>>], [ok |-> FALSE, value |-> <<>>]}
ConcGenOutcomes ==
    {[ok |-> TRUE, text |-> t, error |-> <<>>] : t \in GenTexts}
    \cup {[ok |-> FALSE, text |-> <<>>, error |-> <<"quota", "exceeded">>]}

\* the snapshots the calls run over: of full size, the first chunk from the
\* sales page, every chunk with a non-zero embedding
ConcSnapshots ==
    {data \in Snapshots :
        /\ data.total_docs = MaxDocs
        /\ data.documents[1].path_slug = "sales"
        /\ \A i \in 1..Len(data.embeddings) : SumSq(data.embeddings[i]) > 0}

\* OdooRAGSystem.__init__ has loaded a snapshot and built the index
ConcInit ==
    /\ \E data \in ConcSnapshots :
        /\ documents = data.documents
        /\ embeddings = [i \in 1..Len(data.embeddings) |-> NormalizeL2(data.embeddings[i])]
        /\ dimension = data.embedding_dim
        /\ index = <<[d |-> data.embedding_dim,
                      xb |-> [i \in 1..Len(data.embeddings) |-> NormalizeL2(data.embeddings[i])]]>>
    /\ pc = "idle"
    /\ call = NoCall
    /\ retrieved_docs = <<>>
    /\ log = <<>>
    /\ ret = Pending
    /\ frames = [t \in Threads |-> IdleFrame]
    /\ ToolsIdle

\* mutant of LocalDocs: retrieved_docs is kept in one place for all calls,
\* the one the call of thread 1 writes
LocalDocsShared(fs, t) == fs[1].retrieved_docs

\* retrieved_docs is a local of ask (line 151): each call reads its own
LocalDocs(fs, t) == fs[t].retrieved_docs

\* a call of the thread is under way
Busy(f) == f.pc \notin {"idle", "done"}

\* the frames once thread t has moved to frame g; `met` records that a
\* step of a call was taken while the call of another thread was under way
Moved(fs, t, g) ==
    LET both == g.pc # "idle" /\ \E u \in Threads \ {t} : Busy(fs[u])
    IN  [u \in Threads |-> IF u = t THEN [g EXCEPT !.met = @ \/ both]
                                    ELSE [fs[u] EXCEPT !.met = @ \/ (both /\ Busy(fs[u]))]]

\* VectorDatabase.search, called directly by thread t
ThreadSearch(t) ==
    /\ frames[t].pc = "idle"
    /\ \E query_embedding \in ConcQueryVecs, top_k \in ConcTopKs :
        /\ frames' = Moved(frames, t,
                        [IdleFrame EXCEPT
                            !.pc = "done",
                            !.call = [op |-> "search", query_embedding |-> query_embedding,
                                      top_k |-> top_k],
                            !.ret = SearchOutcome(index, documents, query_embedding, top_k)])
        /\ documents' = DocumentsAfterSearch(index, documents, query_embedding, top_k)
    /\ UNCHANGED <<embeddings, dimension, index, seqvars, toolvars>>

\* OdooRAGSystem.ask without an image, up to its first capability call
\* (lines 139-151)
ThreadAskStart(t) ==
    /\ frames[t].pc = "idle"
    /\ \E query \in ConcQueries, top_k \in ConcTopKs :
        frames' = Moved(frames, t,
                      [IdleFrame EXCEPT
                          !.pc = "embed",
                          !.call = [op |-> "ask", query |-> query, top_k |-> top_k,
                                    image_data |-> "None"]])
    /\ UNCHANGED <<dbvars, seqvars, toolvars>>

\* retrieve_relevant_docs from line 40 on in the call of frame f, and ask up
\* to the next capability call
FrameRetrieved(f, emb) ==
    LET out == IF emb.ok /\ emb.value # <<>>
               THEN SearchOutcome(index, documents, emb.value, f.call.top_k)
               ELSE Return(<<>>)
    IN  IF out.kind = "raise"
        THEN [f EXCEPT !.pc = "done", !.ret = out]
        ELSE [f EXCEPT !.retrieved_docs = out.value,
                       !.pc = IF out.value = <<>> THEN "fallback" ELSE "generate"]

\* self.documents once retrieve_relevant_docs has run in the call of frame f
DocumentsRetrieved(f, emb) ==
    IF emb.ok /\ emb.value # <<>>
    THEN DocumentsAfterSearch(index, documents, emb.value, f.call.top_k)
    ELSE documents

\* generate_embedding in thread t: embed_content with task_type (lines 32-37)
ThreadEmbed(t) ==
    /\ frames[t].pc = "embed"
    /\ \E o \in ConcEmbedOutcomes :
        LET f == [frames[t] EXCEPT !.log =
                     Append(@, [cap |-> "embed", task_type |-> "RETRIEVAL_QUERY", out |-> o])]
        IN  IF o.ok
            THEN /\ frames' = Moved(frames, t, FrameRetrieved(f, o))
                 /\ documents' = DocumentsRetrieved(f, o)
            ELSE /\ frames' = Moved(frames, t, [f EXCEPT !.pc = "embed_retry"])
                 /\ documents' = documents
    /\ UNCHANGED <<embeddings, dimension, index, seqvars, toolvars>>

\* generate_embedding in thread t: embed_content without task_type (lines 42-50)
ThreadEmbedRetry(t) ==
    /\ frames[t].pc = "embed_retry"
    /\ \E o \in ConcEmbedOutcomes :
        LET f == [frames[t] EXCEPT !.log =
                     Append(@, [cap |-> "embed", task_type |-> "unspecified", out |-> o])]
        IN  /\ frames' = Moved(frames, t, FrameRetrieved(f, o))
            /\ documents' = DocumentsRetrieved(f, o)
    /\ UNCHANGED <<embeddings, dimension, index, seqvars, toolvars>>

\* generate_answer in thread t: the grounded synthesis call (lines 81-91),
\* then ask to its return unless the fallback is called
ThreadGenerate(t) ==
    /\ frames[t].pc = "generate"
    /\ \E o \in ConcGenOutcomes :
        LET f == [frames[t] EXCEPT !.log =
                     Append(@, [cap |-> "generate", kind |-> "grounded", out |-> o])]
        IN  frames' = Moved(frames, t,
                IF o.ok /\ IsUnknownResponse(o.text)
                THEN [f EXCEPT !.pc = "fallback"]
                ELSE [f EXCEPT !.pc = "done",
                               !.ret = Return(TextResult(f.call.query, GroundedAnswer(o),
                                                         LocalDocs(frames, t)))])
    /\ UNCHANGED <<dbvars, seqvars, toolvars>>

\* _generate_fallback_answer in thread t (lines 133-137), then ask to its return
ThreadFallback(t) ==
    /\ frames[t].pc = "fallback"
    /\ \E o \in ConcGenOutcomes :
        LET f == [frames[t] EXCEPT !.log =
                     Append(@, [cap |-> "generate", kind |-> "fallback", out |-> o])]
            answer == FallbackAnswer(f.call.query, o)
        IN  frames' = Moved(frames, t,
                [f EXCEPT !.pc = "done",
                          !.ret = IF LocalDocs(frames, t) = <<>>
                                  THEN Return(EmptyRetrievalResult(f.call.query, answer))
                                  ELSE Return(TextResult(f.call.query, answer,
                                                         LocalDocs(frames, t)))])
    /\ UNCHANGED <<dbvars, seqvars, toolvars>>

\* the caller of thread t takes what its call returned or raised
ThreadReturn(t) ==
    /\ frames[t].pc = "done"
    /\ frames' = Moved(frames, t, IdleFrame)
    /\ UNCHANGED <<dbvars, seqvars, toolvars>>

ConcNext ==
    \E t \in Threads :
        \/ ThreadSearch(t)
        \/ ThreadAskStart(t)
        \/ ThreadEmbed(t)
        \/ ThreadEmbedRetry(t)
        \/ ThreadGenerate(t)
        \/ ThreadFallback(t)
        \/ ThreadReturn(t)

ConcSpec == ConcInit /\ [][ConcNext]_vars

\* =====================================================================
\* Properties
\* =====================================================================
IsZero(v) == \A i \in 1..Len(v) : v[i] = 0

Built == index # NoIndex

\* a direct call of search on the built index has ended
SearchDone == pc = "done" /\ call.op = "search" /\ Built

\* ... with a query of the corpus dimension
SearchDoneD == SearchDone /\ Len(call.query_embedding) = dimension

\* 1-based position in the corpus of the chunk a search result was made from
CorpusIndexOf(r) == CHOOSE i \in 1..Len(documents) : documents[i].chunk_id = r.chunk_id

\* the cosine similarity of the query of the last search to stored vector i
RealSimilarity(i) == InnerProduct(NormalizeL2(call.query_embedding), embeddings[i])

NonIncreasing(rs) ==
    \A i, j \in 1..Len(rs) : i < j => rs[i].similarity >= rs[j].similarity

DistinctChunks(rs) ==
    \A i, j \in 1..Len(rs) : i # j => rs[i].chunk_id # rs[j].chunk_id

TiesAscending(rs) ==
    \A i, j \in 1..Len(rs) :
        (i < j /\ rs[i].similarity = rs[j].similarity)
            => CorpusIndexOf(rs[i]) < CorpusIndexOf(rs[j])

\* C1 as stated: for 1 <= k <= N search returns min(k, N) results in
\* non-increasing similarity, equal similarities in ascending corpus index.
C1_TiesAscendingIndex ==
    (SearchDoneD /\ call.top_k >= 1 /\ call.top_k <= Len(documents))
        => /\ ret.kind = "return"
           /\ Len(ret.value) = Min(call.top_k, Len(documents))
           /\ NonIncreasing(ret.value)
           /\ TiesAscending(ret.value)

\* C1 (amended): for 1 <= k <= N search returns exactly min(k, N) results,
\* each a distinct chunk carrying its cosine similarity and its 1-based rank,
\* in non-increasing similarity, and no chunk left out is more similar than a
\* returned one (the order of equal similarities is the index's own).
C1_SearchRanked ==
    (SearchDoneD /\ call.top_k >= 1 /\ call.top_k <= Len(documents))
        => /\ ret.kind = "return"
           /\ Len(ret.value) = Min(call.top_k, Len(documents))
           /\ NonIncreasing(ret.value)
           /\ DistinctChunks(ret.value)
           /\ \A i \in 1..Len(ret.value) :
                /\ ret.value[i].rank = i
                /\ ret.value[i].similarity = RealSimilarity(CorpusIndexOf(ret.value[i]))
           /\ \A c \in 1..Len(documents) :
                (\A i \in 1..Len(ret.value) : CorpusIndexOf(ret.value[i]) # c)
                    => \A i \in 1..Len(ret.value) :
                            RealSimilarity(c) <= ret.value[i].similarity

\* witness of C1: a search with k = N = 2 returned two results of equal similarity
C1_Witness ==
    /\ SearchDoneD /\ call.top_k = 2 /\ Len(documents) = 2
    /\ ret.kind = "return" /\ Len(ret.value) = 2
    /\ ret.value[1].similarity = ret.value[2].similarity
    /\ ret.value[1].similarity > 0

\* ---------------------------------------------------------------- ask
\* a call of ask has ended on the text path
TextDone == pc = "done" /\ call.op = "ask" /\ ~Truthy(call.image_data)

\* the synthesis calls of a given kind made by the call, in order
GenCalls(kind) ==
    SelectSeq(log, LAMBDA c : c.cap = "generate" /\ c.kind = kind)

\* the grounded synthesis returned a text holding an indicator phrase
GroundedUnknown ==
    /\ GenCalls("grounded") # <<>>
    /\ GenCalls("grounded")[1].out.ok
    /\ IsUnknownResponse(GenCalls("grounded")[1].out.text)

\* the fallback synthesis call was made and failed
FallbackFailed ==
    /\ GenCalls("fallback") # <<>>
    /\ ~GenCalls("fallback")[1].out.ok

\* C2 as stated: on the text path, when the grounded synthesis output holds
\* an indicator phrase, the result has from_docs = false, whatever the
\* fallback synthesis produces.
C2_MarkerMeansNotFromDocs ==
    (TextDone /\ GroundedUnknown)
        => (ret.kind = "return" /\ ret.value.from_docs = FALSE)

\* C3: no result of ask, on either path, holds two sources with the same url.
C3_SourcesUniqueUrl ==
    (pc = "done" /\ call.op = "ask" /\ ret.kind = "return")
        => \A i, j \in 1..Len(ret.value.sources) :
                i # j => ret.value.sources[i].url # ret.value.sources[j].url

\* witness of C3: a text-path result made from retrieved chunks two of which
\* are different chunks of one page
C3_Witness ==
    /\ TextDone /\ ret.kind = "return"
    /\ ret.value.sources # <<>>
    /\ \E i, j \in 1..Len(retrieved_docs) :
            /\ retrieved_docs[i].url = retrieved_docs[j].url
            /\ retrieved_docs[i].chunk_id # retrieved_docs[j].chunk_id

\* positions of the retrieved chunks that are the first of their url
FirstOccurrences ==
    {i \in 1..Len(retrieved_docs) :
        \A h \in 1..(i - 1) : retrieved_docs[h].url # retrieved_docs[i].url}

\* the result under test was built from retrieved_docs: a text-path result,
\* or a vision-path result whose synthesis call succeeded
SourcesBuilt ==
    /\ pc = "done" /\ call.op = "ask" /\ ret.kind = "return"
    /\ Truthy(call.image_data)
            => (GenCalls("vision") # <<>> /\ GenCalls("vision")[1].out.ok)

\* C4: the sources are the retrieved chunks that are the first of their url,
\* in retrieval order, each with the similarity (and path) of that chunk;
\* every retrieved url appears exactly once; similarities do not increase.
C4_SourcesFirstOccurrences ==
    SourcesBuilt =>
        LET sources == ret.value.sources IN
        /\ Len(sources) = Cardinality(FirstOccurrences)
        /\ \A i \in FirstOccurrences :
              LET at == Cardinality({h \in FirstOccurrences : h <= i}) IN
              /\ sources[at].url = retrieved_docs[i].url
              /\ sources[at].similarity = retrieved_docs[i].similarity
              /\ sources[at].path = retrieved_docs[i].path_slug
        /\ \A i \in 1..Len(retrieved_docs) :
              Cardinality({at \in 1..Len(sources) :
                              sources[at].url = retrieved_docs[i].url}) = 1
        /\ \A i, j \in 1..Len(sources) :
              i < j => sources[i].similarity >= sources[j].similarity

\* witness of C4: three retrieved chunks gave two sources, in retrieval order
C4_Witness ==
    /\ TextDone /\ ret.kind = "return"
    /\ Len(retrieved_docs) = 3 /\ Len(ret.value.sources) = 2
    /\ ret.value.sources[1].url = retrieved_docs[1].url
    /\ ret.value.sources[2].url = retrieved_docs[2].url
    /\ ret.value.sources[1].similarity > ret.value.sources[2].similarity

\* C5: on the text path, a retrieval with no candidate gives from_docs =
\* false and no sources, whatever the fallback synthesis does.
C5_EmptyRetrieval ==
    (TextDone /\ ret.kind = "return" /\ retrieved_docs = <<>>)
        => (ret.value.from_docs = FALSE /\ ret.value.sources = <<>>)

\* witness of C5: the retrieval was empty and the fallback synthesis returned
\* a text without indicator phrase
C5_Witness ==
    /\ TextDone /\ ret.kind = "return" /\ retrieved_docs = <<>>
    /\ GenCalls("fallback") # <<>>
    /\ GenCalls("fallback")[1].out.ok
    /\ ~IsUnknownResponse(ret.value.answer)

\* C10: a failure of the fallback's synthesis call does not leave ask: ask
\* returns, and the answer is the apology, which holds the query and nothing
\* of the failure, from an empty retrieval and from an indicator phrase alike.
C10_FallbackFailureTemplated ==
    (TextDone /\ FallbackFailed)
        => /\ ret.kind = "return"
           /\ IsInfix(call.query, ret.value.answer)
           /\ ~IsInfix(GenCalls("fallback")[1].out.error, ret.value.answer)
           /\ IsInfix(<<"Based", "on", "general", "knowledge:">>, ret.value.answer)

\* witness of C10: the fallback entered from an indicator phrase failed
C10_Witness ==
    /\ TextDone /\ FallbackFailed /\ GroundedUnknown
    /\ retrieved_docs # <<>>
    /\ ret.kind = "return"

\* ------------------------------------------------------------- search
\* C6 as stated: for k > N search returns exactly N results, each a distinct
\* chunk with its real similarity.
C6_ClampedToN ==
    (SearchDoneD /\ call.top_k > Len(documents))
        => /\ ret.kind = "return"
           /\ Len(ret.value) = Len(documents)
           /\ DistinctChunks(ret.value)
           /\ \A i \in 1..Len(ret.value) :
                ret.value[i].similarity = RealSimilarity(CorpusIndexOf(ret.value[i]))

\* C7: a query whose length differs from D makes search fail; nothing is
\* returned (so the query was neither truncated nor padded).
C7_DimensionMismatchRaises ==
    (SearchDone /\ Len(call.query_embedding) # dimension)
        => ret.kind = "raise"

\* witness of C7: a search with k >= 1 and a query of length 1 # D has raised
C7_Witness ==
    /\ SearchDone /\ Len(call.query_embedding) = 1 /\ dimension = 2
    /\ call.top_k >= 1
    /\ ret.kind = "raise"

\* C8 as stated: for the all-zero query of dimension D every returned
\* result has similarity exactly 0.
C8_ZeroQuerySimilarityZero ==
    (SearchDoneD /\ IsZero(call.query_embedding) /\ ret.kind = "return")
        => \A i \in 1..Len(ret.value) : ret.value[i].similarity = 0

\* the stored vector of the chunk a search result was made from is all-zero
FromZeroVector(r) == IsZero(embeddings[CorpusIndexOf(r)])

\* build_index leaves an all-zero stored vector all-zero
ZeroStaysZero ==
    \A i \in 1..Len(embeddings) :
        (Len(embeddings') = Len(embeddings) /\ IsZero(embeddings[i]))
            => IsZero(embeddings'[i])

\* no result of an all-zero stored vector is ranked above a result of a
\* non-zero stored vector
ZeroNeverAboveNonZero ==
    (SearchDoneD /\ ret.kind = "return")
        => \A i, j \in 1..Len(ret.value) :
                (i < j /\ FromZeroVector(ret.value[i])) => FromZeroVector(ret.value[j])

\* no result of an all-zero stored vector is ranked above a result of
\* positive similarity
ZeroNeverAbovePositive ==
    (SearchDoneD /\ ret.kind = "return")
        => \A i, j \in 1..Len(ret.value) :
                (i < j /\ FromZeroVector(ret.value[i])) => ret.value[j].similarity <= 0

\* C9 as stated: build keeps an all-zero stored vector all-zero, and its
\* chunk never ranks above the chunk of a non-zero stored vector.
C9_ZeroNeverOutranks == [][ZeroStaysZero /\ ZeroNeverAboveNonZero']_vars

\* C9 (amended): build keeps an all-zero stored vector all-zero, and its
\* chunk never ranks above a result of positive similarity (it does rank
\* above the chunk of a non-zero vector of negative similarity).
C9_ZeroNeverOutranksPositive == [][ZeroStaysZero /\ ZeroNeverAbovePositive']_vars

\* witness of C9: in a result list the chunk of an all-zero stored vector
\* stands first, with similarity 0, above a chunk of negative similarity
C9_Witness ==
    /\ SearchDoneD /\ ret.kind = "return" /\ Len(ret.value) = 2
    /\ FromZeroVector(ret.value[1]) /\ ret.value[1].similarity = 0
    /\ ~FromZeroVector(ret.value[2]) /\ ret.value[2].similarity < 0

\* ---------------------------------------------------- embedding failures
\* the calls of the embedding capability made by the call, in order
EmbedCalls == SelectSeq(log, LAMBDA c : c.cap = "embed")

\* generate_embedding gave no vector: the call with the task type failed and
\* so did the call without it (embedding_system.py lines 37-50)
EmbeddingFailed ==
    /\ Len(EmbedCalls) = 2
    /\ ~EmbedCalls[1].out.ok
    /\ ~EmbedCalls[2].out.ok

\* a call of ask is in progress or has just ended
InAsk == call.op = "ask"

\* what a call of ask whose embedding failed gives back
EmbeddingFailureRecovered ==
    (InAsk /\ pc = "done" /\ EmbeddingFailed)
        => /\ ret.kind = "return"
           /\ ret.value.sources = <<>>
           /\ ret.value.from_docs = FALSE
           /\ ~Truthy(call.image_data)
                => /\ GenCalls("grounded") = <<>>
                   /\ Len(GenCalls("fallback")) = 1
                   /\ ret.value = EmptyRetrievalResult(call.query,
                          FallbackAnswer(call.query, GenCalls("fallback")[1].out))

\* C11: an embedding failure during ask is recovered within the call: ask does
\* not raise and returns empty sources and from_docs = false, on the text
\* path through the fallback synthesis; no step of the call writes the index,
\* the chunk records or the stored embeddings, and once the call has returned
\* nothing of it is left, so that a later call starts from the state an
\* earlier one started from.
C11_EmbeddingFailureRecoverable ==
    [][ /\ EmbeddingFailureRecovered'
        /\ (InAsk \/ InAsk') => UNCHANGED dbvars
        /\ (InAsk /\ call'.op = "none")
              => (pc' = "idle" /\ retrieved_docs' = <<>> /\ log' = <<>> /\ ret' = Pending) ]_vars

\* reached: a text-path call whose two embedding calls failed has returned
\* the fallback result
C11_Witness ==
    /\ TextDone /\ EmbeddingFailed
    /\ ret.kind = "return" /\ ret.value.sources = <<>> /\ ret.value.from_docs = FALSE
    /\ Len(GenCalls("fallback")) = 1

\* C12 as stated: every vector ask hands to the index search came from an
\* embedding call made in query mode (task_type RETRIEVAL_QUERY); none came
\* from a call in document mode or with no mode given.
C12_SearchVectorInQueryMode ==
    InAsk => \A i \in 1..Len(EmbedCalls) :
                 EmbedCalls[i].out.ok => EmbedCalls[i].task_type = "RETRIEVAL_QUERY"

\* a synthesis call of the request was made after a synthesis call that failed
SynthesisAfterFailure ==
    \E i, j \in 1..Len(log) :
        /\ i < j
        /\ log[i].cap = "generate" /\ log[j].cap = "generate"
        /\ ~log[i].out.ok

\* an embedding call of the request was made after an embedding call that failed
EmbedAfterFailure ==
    \E i, j \in 1..Len(EmbedCalls) : i < j /\ ~EmbedCalls[i].out.ok

\* C13 as stated: within one call of ask the embedding capability is invoked
\* at most once, and no capability is invoked again after an invocation of it
\* failed.
C13_NoInternalRetry ==
    InAsk => /\ Len(EmbedCalls) <= 1
             /\ ~EmbedAfterFailure
             /\ ~SynthesisAfterFailure

\* C13 amended: the synthesis capability is never invoked again after an
\* invocation of it failed; the embedding capability is invoked at most
\* twice, the second time without a task type and only after the first
\* invocation, the one in query mode, failed.
C13_RetryOnlyOfEmbedding ==
    InAsk => /\ ~SynthesisAfterFailure
             /\ Len(EmbedCalls) <= 2
             /\ Len(EmbedCalls) >= 1 => EmbedCalls[1].task_type = "RETRIEVAL_QUERY"
             /\ Len(EmbedCalls) = 2
                  => /\ ~EmbedCalls[1].out.ok
                     /\ EmbedCalls[2].task_type = "unspecified"

\* reached: a call whose first embedding call failed and whose second gave
\* the vector, and whose grounded synthesis then failed, has returned
C13_Witness ==
    /\ TextDone /\ ret.kind = "return"
    /\ Len(EmbedCalls) = 2 /\ EmbedCalls[2].out.ok
    /\ Len(GenCalls("grounded")) = 1 /\ ~GenCalls("grounded")[1].out.ok
    /\ GenCalls("fallback") = <<>>


\* ------------------------------------------------ grounded synthesis fails
\* the grounded synthesis call was made and failed
GroundedFailed ==
    /\ GenCalls("grounded") # <<>>
    /\ ~GenCalls("grounded")[1].out.ok

\* C14 as stated: when the grounded synthesis call fails on the text path
\* with a non-empty retrieval, ask does not raise, the fallback synthesis is
\* invoked and the result has from_docs = false.
C14_GroundedFailureFallsBack ==
    (TextDone /\ GroundedFailed /\ retrieved_docs # <<>>)
        => /\ ret.kind = "return"
           /\ GenCalls("fallback") # <<>>
           /\ ret.value.from_docs = FALSE

\* ------------------------------------------------------------ vision path
\* a call of ask has ended on the vision path
VisionDone == pc = "done" /\ call.op = "ask" /\ Truthy(call.image_data)

\* the vector generate_embedding gave to retrieve_relevant_docs
UsedEmbedding ==
    EmbedCalls[CHOOSE i \in 1..Len(EmbedCalls) : EmbedCalls[i].out.ok].out.value

\* C15: on the vision path every returned result has from_docs = true exactly
\* when its sources are non-empty, the retrieval behind it is the one of
\* search with top_k = 3 whatever top_k the caller gave, and the sources are
\* at most 3.
C15_VisionFromDocsAndTopK ==
    VisionDone
        => /\ ret.kind = "return"
           /\ ret.value.from_docs <=> (ret.value.sources # <<>>)
           /\ Len(ret.value.sources) <= 3
           /\ Len(retrieved_docs) <= 3
           /\ retrieved_docs # <<>>
                => retrieved_docs = SearchOutcome(index, documents, UsedEmbedding, 3).value

\* reached: a vision call given top_k = 1 has returned two sources made from
\* three retrieved candidates
C15_Witness ==
    /\ VisionDone /\ call.top_k = 1
    /\ ret.kind = "return" /\ ret.value.from_docs = TRUE
    /\ Len(retrieved_docs) = 3
    /\ Len(ret.value.sources) = 2

\* the image could not be decoded (line 200)
DecodeFailed == call.image_data = "corrupt"

\* the synthesis call of the vision path was made and failed (line 224)
VisionFailed ==
    /\ GenCalls("vision") # <<>>
    /\ ~GenCalls("vision")[1].out.ok

\* the text of the error a vision call failed with
VisionError ==
    IF DecodeFailed THEN <<"cannot", "identify", "image", "file">>
    ELSE GenCalls("vision")[1].out.error

\* C16: on the vision path a failure to decode the image or of the synthesis
\* call is caught: ask returns a result whose answer reports the error, with
\* empty sources, from_docs = false and image_analysis = true, also when the
\* retrieval had produced candidates.
C16_VisionFailureCaught ==
    (VisionDone /\ (DecodeFailed \/ VisionFailed))
        => /\ ret.kind = "return"
           /\ ret.value.answer = <<"X", "Error", "analyzing", "image:">> \o VisionError
           /\ ret.value.sources = <<>>
           /\ ret.value.from_docs = FALSE
           /\ ret.value.image_analysis = TRUE

\* reached: the synthesis call of a vision call failed after the retrieval
\* had produced candidates
C16_Witness ==
    /\ VisionDone /\ VisionFailed
    /\ retrieved_docs # <<>>
    /\ ret.kind = "return" /\ ret.value.sources = <<>>

\* the vision path got as far as its synthesis call: the image was decoded
\* and the retrieval did not raise
SynthesisReached == ~DecodeFailed /\ ~(retrieved_docs = <<>> /\ \E i \in 1..Len(EmbedCalls) :
                                           /\ EmbedCalls[i].out.ok
                                           /\ Len(EmbedCalls[i].out.value) # dimension)

\* C17: on the vision path the indicator phrases re-route nothing: the
\* synthesis capability is invoked exactly once when the call gets as far as
\* its synthesis (never more than once, never for the grounded or the
\* fallback prompt), and the answer returned is the text that invocation
\* returned, also when it holds an indicator phrase.
C17_VisionNeverRerouted ==
    (InAsk /\ Truthy(call.image_data))
        => /\ GenCalls("fallback") = <<>>
           /\ GenCalls("grounded") = <<>>
           /\ Len(GenCalls("vision")) <= 1
           /\ (pc = "done" /\ SynthesisReached) => Len(GenCalls("vision")) = 1
           /\ (pc = "done" /\ GenCalls("vision") # <<>> /\ GenCalls("vision")[1].out.ok)
                => /\ ret.kind = "return"
                   /\ ret.value.answer = GenCalls("vision")[1].out.text

\* reached: the synthesis of a vision call returned a text holding an
\* indicator phrase, and that text is the answer
C17_Witness ==
    /\ VisionDone /\ Len(GenCalls("vision")) = 1
    /\ GenCalls("vision")[1].out.ok
    /\ IsUnknownResponse(GenCalls("vision")[1].out.text)
    /\ ret.kind = "return"
    /\ ret.value.answer = GenCalls("vision")[1].out.text


\* ------------------------------------------------------- the index is kept
\* no stored chunk record carries a field that search adds to its results
NoResultFields ==
    \A i \in 1..Len(documents) :
        "similarity" \notin DOMAIN documents[i] /\ "rank" \notin DOMAIN documents[i]

\* between calls nothing of an earlier call is left
NoCallState ==
    pc = "idle" => (call = NoCall /\ retrieved_docs = <<>> /\ log = <<>> /\ ret = Pending)

\* C18: once the index is built, no call of search, get_stats or ask (text or
\* vision path, returning or raising) changes the stored chunk records, the
\* stored embeddings, the dimension or the index; the chunk records never
\* get a similarity or a rank field; and between calls no state of a call
\* is left.
C18_IndexUnchangedAfterBuild ==
    [][ Built => /\ UNCHANGED dbvars
                 /\ NoResultFields'
                 /\ NoCallState' ]_vars

\* reached: a search on the built index has returned results carrying
\* similarity and rank, and the stored records carry neither
C18_Witness ==
    /\ SearchDone /\ ret.kind = "return" /\ ret.value # <<>>
    /\ "similarity" \in DOMAIN ret.value[1] /\ "rank" \in DOMAIN ret.value[1]
    /\ NoResultFields


\* ------------------------------------------------------ calls run at once
\* what the last embedding call of the call of frame f did
FinalEmbedding(f) ==
    LET es == SelectSeq(f.log, LAMBDA c : c.cap = "embed") IN es[Len(es)].out

\* what the synthesis call of a kind did in the call of frame f
GenOutcomeOf(f, kind) ==
    SelectSeq(f.log, LAMBDA c : c.cap = "generate" /\ c.kind = kind)[1].out

\* what the call of frame f gives when it runs alone over the built index:
\* search, or ask without an image, as a function of the arguments and of
\* what the capabilities did for this call
AloneResult(f) ==
    IF f.call.op = "search"
    THEN SearchOutcome(index, documents, f.call.query_embedding, f.call.top_k)
    ELSE LET query == f.call.query
             emb == FinalEmbedding(f)
             found == IF emb.ok /\ emb.value # <<>>
                      THEN SearchOutcome(index, documents, emb.value, f.call.top_k)
                      ELSE Return(<<>>)
         IN  IF found.kind = "raise" THEN found
             ELSE IF found.value = <<>>
             THEN Return(EmptyRetrievalResult(query,
                             FallbackAnswer(query, GenOutcomeOf(f, "fallback"))))
             ELSE LET g == GenOutcomeOf(f, "grounded") IN
                  IF g.ok /\ IsUnknownResponse(g.text)
                  THEN Return(TextResult(query,
                                  FallbackAnswer(query, GenOutcomeOf(f, "fallback")),
                                  found.value))
                  ELSE Return(TextResult(query, GroundedAnswer(g), found.value))

\* in the runs of one call at a time, AloneResult is what search and ask
\* (text path) give
AloneResultIsSequential ==
    (pc = "done" /\ (call.op = "search" \/ (call.op = "ask" /\ ~Truthy(call.image_data))))
        => ret = AloneResult([call |-> call, log |-> log])

\* the call of thread t was ask and has returned a result
AskReturned(t) ==
    /\ frames[t].pc = "done"
    /\ frames[t].call.op = "ask"
    /\ frames[t].ret.kind = "return"

C20_InterleavingSameAsAlone ==
    /\ [](\A t \in Threads : frames[t].pc = "done" => frames[t].ret = AloneResult(frames[t]))
    /\ [][ /\ UNCHANGED dbvars
           /\ \E t \in Threads : \A u \in Threads \ {t} :
                 [frames'[u] EXCEPT !.met = FALSE] = [frames[u] EXCEPT !.met = FALSE] ]_vars

\* reached: a call of ask and a call of search that ran at the same time
\* have both ended, with different results
C20_Witness ==
    /\ AskReturned(1) /\ frames[1].met
    /\ frames[1].ret.value.sources # <<>>
    /\ frames[2].pc = "done" /\ frames[2].call.op = "search" /\ frames[2].met
    /\ frames[2].ret.kind = "return"
    /\ frames[1].call.top_k # frames[2].call.top_k


\* ------------------------------------------------- C21, C22: load and build
\* build_index has run to its end: the index holds the rows add was given
BuildCompleted == index # NoIndex /\ Len(index[1].xb) > 0

LoadDone == pc = "done" /\ call.op = "load_embeddings"

\* the snapshot the last load read declares a dimensionality that every one
\* of its vectors has, and holds one vector per chunk
WellFormed(file) ==
    /\ file.kind = "dict"
    /\ Len(file.data.embeddings) = Len(file.data.documents)
    /\ \A i \in 1..Len(file.data.embeddings) :
           Len(file.data.embeddings[i]) = file.data.embedding_dim

\* C21: search before build has completed raises and returns nothing, build
\* before any embeddings are loaded raises, and a search returns results only
\* after a load and then a build have both succeeded.
C21_LoadBuildSearchOrder ==
    /\ (pc = "done" /\ call.op = "search" /\ ~BuildCompleted) => ret.kind = "raise"
    /\ (pc = "done" /\ call.op = "build_index" /\ Len(embeddings) = 0)
           => ret.kind = "raise"
    /\ (pc = "done" /\ call.op = "search" /\ ret.kind = "return" /\ ret.value # <<>>)
           => BuildCompleted

\* C22: load raises, and leaves nothing to build an index from, whenever the
\* snapshot is missing, malformed, or holds a vector whose length is not the
\* declared dimensionality or a number of vectors that is not the number of
\* chunks; after a load that succeeds every vector has the declared length.
C22_LoadRejectsBadSnapshot ==
    LoadDone =>
        /\ ~WellFormed(call.file) => (ret.kind = "raise" /\ Len(embeddings) = 0)
        /\ ret.kind = "return" =>
               \A i \in 1..Len(embeddings) : Len(embeddings[i]) = dimension

\* ------------------------------------------------- C23, C24: title, preview
EntryMade == entry_pc = "entry"

\* the file name without a final ".html", anything else kept
RemoveSuffix(filename) ==
    IF filename # <<>> /\ filename[Len(filename)] = ".html"
    THEN SubSeq(filename, 1, Len(filename) - 1)
    ELSE filename

\* C23: the title of a source entry is the chunk's filename with a trailing
\* ".html" removed and nothing else changed.
C23_TitleStripsSuffix ==
    EntryMade => entry_out.title = RemoveSuffix(entry_doc.filename)

\* C24: the preview is the content itself when the content has at most 200
\* characters, and its first 200 characters followed by "..." when it has more.
C24_PreviewCutsAfterLimit ==
    EntryMade =>
        LET content == entry_doc.content
            preview == entry_out.preview IN
        /\ Len(content) <= 200 => preview = content
        /\ Len(content) > 200 =>
               /\ Len(preview) = 201
               /\ \A i \in 1..200 : preview[i] = content[i]
               /\ preview[201] = "..."

C24_Witness ==
    /\ EntryMade
    /\ Len(entry_doc.content) = 201
    /\ entry_out.preview # entry_doc.content

\* ------------------------------------------------- C25: the chunk records
Processed == crawl_pc = "processed"

\* C25: in a corpus made by crawling and then chunking, no two chunk records
\* share a chunk_id and no content is empty, also when an HTML page is linked
\* from several index pages.
C25_ChunkIdUnique ==
    Processed =>
        /\ \A i, j \in 1..Len(processed_docs) :
               i # j => processed_docs[i].chunk_id # processed_docs[j].chunk_id
        /\ \A i \in 1..Len(processed_docs) : processed_docs[i].content # <<>>

\* ------------------------------------------------------- C30: the crawl
\* crawl has returned
Crawled == crawl_pc \in {"crawled", "saved", "processed"}

FetchedOnce == \A i, j \in 1..Len(fetched) : i # j => fetched[i].url # fetched[j].url

\* a url taken off the queue after its first visit adds nothing
RevisitAddsNothing ==
    (crawl_pc = "crawl" /\ queue # <<>> /\ Head(queue) \in visited_urls)
        => (fetched' = fetched /\ html_links' = html_links /\ queue' = Tail(queue))

\* a url taken off the queue for the first time is fetched
FirstVisitFetches ==
    (crawl_pc = "crawl" /\ queue # <<>> /\ Head(queue) \notin visited_urls)
        => (Len(fetched') = Len(fetched) + 1 /\ fetched'[Len(fetched')].url = Head(queue))

\* a failed fetch marks its url visited and leaves the crawl running
FetchErrorContinues ==
    (Len(fetched') > Len(fetched) /\ ~fetched'[Len(fetched')].ok)
        => /\ fetched'[Len(fetched')].url \in visited_urls'
           /\ crawl_pc' = "crawl"
           /\ queue' = Tail(queue)

\* C30: during crawl every url is fetched at most once, a url that is taken
\* off the queue again is not expanded again, a failed fetch marks the url
\* visited and does not stop the crawl, and the crawl ends, with an empty queue.
C30_CrawlTerminates ==
    /\ [](FetchedOnce /\ (Crawled => queue = <<>>))
    /\ [][RevisitAddsNothing /\ FirstVisitFetches /\ FetchErrorContinues]_vars
    /\ <>Crawled

\* the crawl of a site with a link cycle has ended after a directory was
\* taken off the queue twice, its one fetch having failed
C30_Witness ==
    /\ Crawled
    /\ \E i, j \in 1..Len(dequeued) : i < j /\ dequeued[i] = dequeued[j]
    /\ \E i \in 1..Len(fetched) :
           /\ ~fetched[i].ok
           /\ \E k \in 1..Len(dequeued) : k > i /\ dequeued[k] = fetched[i].url
    /\ \E d \in Dirs : \E l \in 1..Len(site[d]) : site[d][l] = d

\* ------------------------------------------------------ C29: chunk_text
\* C29: for 0 <= overlap < chunk_size the start position of chunk_text
\* increases strictly from one turn of the loop to the next, also when the
\* end was moved back to a sentence boundary, and is never negative.
C29_StartIncreases ==
    /\ [](start >= 0)
    /\ [][(chunk_pc = "loop" /\ start < Len(text)) => start' > start]_vars

\* --------------------------------------- C26: the calls of the text path
\* ask on the text path has ended after a retrieval that found chunks
TextRetrieved == TextDone /\ retrieved_docs # <<>>

SearchCallsMade == SelectSeq(log, LAMBDA c : c.cap = "search")

\* the log is: the calls of the embedding capability, the search, the
\* grounded synthesis and after it, at most, the fallback synthesis
CallsInOrder ==
    LET n == Len(EmbedCalls) IN
    /\ n >= 1
    /\ \A i \in 1..n : log[i].cap = "embed"
    /\ Len(log) >= n + 2
    /\ log[n + 1].cap = "search"
    /\ log[n + 2].cap = "generate" /\ log[n + 2].kind = "grounded"
    /\ Len(log) > n + 2 =>
           /\ Len(log) = n + 3
           /\ log[n + 3].cap = "generate" /\ log[n + 3].kind = "fallback"

\* the text the grounded synthesis call returned holds a marker phrase
GroundedTextHasMarker ==
    /\ GenCalls("grounded")[1].out.ok
    /\ \E indicator \in UnknownIndicators :
           IsInfix(indicator, Lower(GenCalls("grounded")[1].out.text))

\* C26: on the text path with non-empty retrieval the calls are made in the
\* order embed, search, grounded synthesis, the grounded synthesis once; the
\* fallback synthesis is called exactly when the text the grounded call
\* returned holds one of the seven marker phrases, whatever its case, it is
\* called after the grounded call, and the answer returned is then what the
\* fallback gave.
C26_TextPathCallOrder ==
    TextRetrieved =>
        /\ CallsInOrder
        /\ Len(SearchCallsMade) = 1
        /\ Len(GenCalls("grounded")) = 1
        /\ Cardinality(UnknownIndicators) = 7
        /\ GenCalls("fallback") # <<>> <=> GroundedTextHasMarker
        /\ GenCalls("fallback") # <<>> =>
               /\ Len(GenCalls("fallback")) = 1
               /\ ret.kind = "return"
               /\ ret.value.answer =
                      IF GenCalls("fallback")[1].out.ok
                      THEN GenCalls("fallback")[1].out.text
                      ELSE Apology(call.query)

\* the fallback gave another text than the grounded call, after an embedding
\* that needed its second call
C26_Witness ==
    /\ TextRetrieved
    /\ Len(EmbedCalls) = 2
    /\ GenCalls("fallback") # <<>>
    /\ GenCalls("fallback")[1].out.ok
    /\ GenCalls("fallback")[1].out.text # GenCalls("grounded")[1].out.text
    /\ ret.value.answer = GenCalls("fallback")[1].out.text

\* --------------------------------------------- C27: from_docs and sources
AskReturnedResult == pc = "done" /\ call.op = "ask" /\ ret.kind = "return"

\* C27: every result ask returns, for a text question or for an image, that
\* has from_docs = true has a non-empty list of sources.
C27_FromDocsHasSources ==
    AskReturnedResult => (ret.value.from_docs => ret.value.sources # <<>>)

\* a result with from_docs = true on the vision path, and its sources
C27_Witness ==
    /\ AskReturnedResult
    /\ Truthy(call.image_data)
    /\ ret.value.from_docs
    /\ Len(ret.value.sources) > 1

\* ------------------------------------- C28: no threshold on similarity
\* the empty-retrieval branch of ask (lines 153-161) was taken
EmptyRetrievalTaken ==
    /\ ret.kind = "return"
    /\ retrieved_docs = <<>>
    /\ GenCalls("grounded") = <<>>
    /\ GenCalls("fallback") # <<>>
    /\ ~ret.value.from_docs

\* generate_embedding gave a vector
VectorObtained == \E i \in 1..Len(EmbedCalls) : EmbedCalls[i].out.ok

\* retrieval found chunks and the grounded synthesis was called
GroundedTaken ==
    /\ retrieved_docs # <<>>
    /\ Len(GenCalls("grounded")) = 1
    /\ ret.kind = "return"

\* C28 as stated: on the text path with top_k >= 1 the empty-retrieval
\* fallback is taken exactly when the embedding capability gives no vector,
\* and with any vector retrieval is non-empty and the grounded synthesis is
\* called.
C28_AnyVectorGrounded ==
    (TextDone /\ call.top_k >= 1) =>
        /\ EmptyRetrievalTaken <=> EmbeddingFailed
        /\ VectorObtained => GroundedTaken

\* C28, amended: on the text path with top_k >= 1 the empty-retrieval
\* fallback is taken exactly when the embedding capability gives no vector;
\* with a vector of the dimension of the index, the zero vector included,
\* retrieval is non-empty and the grounded synthesis is called whatever the
\* similarities are; with a vector of another dimension ask raises.
C28_VectorOfDimensionGrounded ==
    (TextDone /\ call.top_k >= 1) =>
        /\ EmptyRetrievalTaken <=> EmbeddingFailed
        /\ (VectorObtained /\ Len(UsedEmbedding) = dimension) => GroundedTaken
        /\ (VectorObtained /\ Len(UsedEmbedding) # dimension) => ret.kind = "raise"

\* the zero vector was obtained and every chunk retrieved has similarity 0
C28_Witness ==
    /\ TextDone /\ call.top_k >= 1
    /\ VectorObtained
    /\ UsedEmbedding = <<0, 0>>
    /\ GroundedTaken
    /\ \A i \in 1..Len(retrieved_docs) : retrieved_docs[i].similarity = 0

====
